---- MODULE Spec2Model ----
(***************************************************************************)
(* A model of py-resawesome: the resource registry, the argument binder    *)
(* (util.populate_args), the dispatcher (API._call and the six public      *)
(* operations built on it), the transaction committer (API._commit), the   *)
(* access level resolver (API._access_level) and the encoder (API.encode). *)
(*                                                                         *)
(* Python values are modelled as records with a "kind" field, so that any  *)
(* two of them can be compared.  A call of a Python function is modelled   *)
(* by an operator that returns what the call did: the exception it raised  *)
(* (err, "" when it returned), the value it returned, and the sequence of  *)
(* calls it made into the resource (events), in the order it made them.    *)
(***************************************************************************)
EXTENDS Integers, Sequences, FiniteSets, TLC

VARIABLES
    resource_classes,   \* API.resource_classes: name -> class
    is_transactional,   \* API.is_transactional: name -> bool
    pc,                 \* where the caller of the library is
    call,               \* the call made on the library, with its arguments
    outcome,            \* what that call did: err, value, events
    kwargs              \* the keyword arguments populate_args returned

vars == <<resource_classes, is_transactional, pc, call, outcome, kwargs>>

-----------------------------------------------------------------------------
(* Bounds of the model *)

\* the longest batch of call items a dispatch is given
MaxBatch == 2
\* the longest declared parameter list the binder is given
MaxArgs == 2

-----------------------------------------------------------------------------
(* Python values *)

None == [kind |-> "None"]
StrV(s) == [kind |-> "str", v |-> s]
IntV(i) == [kind |-> "int", v |-> i]
ListV(q) == [kind |-> "list", v |-> q]
DictV(f) == [kind |-> "dict", v |-> f]
Instance(cls) == [kind |-> "instance", cls |-> cls]

EmptyMap == [n \in {} |-> None]

\* dict.get(key, default)
Get(map, key, default) == IF key \in DOMAIN map THEN map[key] ELSE default

\* the name tails of the model, for str.startswith
NameTails == {"", "user_id", "token", "commit", "has_access", "has_class_access",
              "serialize", "access_level", "hidden"}

\* str.startswith(prefix), over the names of the model
startswith(name, prefix) == \E rest \in NameTails : name = prefix \o rest

\* str.lower(), over the method names of the model
lower(s) ==
    CASE s = "GET" -> "get"
      [] s = "Save" -> "save"
      [] s = "_Commit" -> "_commit"
      [] s = "_COMMIT" -> "_commit"
      [] OTHER -> s

-----------------------------------------------------------------------------
(* util.populate_args *)

\* populate_args with its two tests in the other order: the caller's value is
\* looked up before the environment's (a faulty variant)
populate_args_sent_first(arg_spec, sent_args, custom_args) ==
    LET RECURSIVE loop(_, _)
        loop(i, kw) ==
            IF i > Len(arg_spec) THEN kw
            ELSE LET arg_name == arg_spec[i] IN
                 IF i = 1 /\ (arg_name = "self" \/ arg_name = "cls")
                 THEN loop(i + 1, kw)
                 ELSE IF arg_name \in DOMAIN sent_args /\ ~startswith(arg_name, "_")
                 THEN loop(i + 1, [n \in DOMAIN kw \cup {arg_name} |->
                                      IF n = arg_name THEN sent_args[arg_name] ELSE kw[n]])
                 ELSE IF arg_name \in DOMAIN custom_args
                 THEN loop(i + 1, [n \in DOMAIN kw \cup {arg_name} |->
                                      IF n = arg_name THEN custom_args[arg_name] ELSE kw[n]])
                 ELSE loop(i + 1, kw)
    IN loop(1, EmptyMap)

\* populate_args without the test of the private marker (a faulty variant)
populate_args_no_private(arg_spec, sent_args, custom_args) ==
    LET RECURSIVE loop(_, _)
        loop(i, kw) ==
            IF i > Len(arg_spec) THEN kw
            ELSE LET arg_name == arg_spec[i] IN
                 IF i = 1 /\ (arg_name = "self" \/ arg_name = "cls")
                 THEN loop(i + 1, kw)
                 ELSE IF arg_name \in DOMAIN custom_args
                 THEN loop(i + 1, [n \in DOMAIN kw \cup {arg_name} |->
                                      IF n = arg_name THEN custom_args[arg_name] ELSE kw[n]])
                 ELSE IF arg_name \in DOMAIN sent_args
                 THEN loop(i + 1, [n \in DOMAIN kw \cup {arg_name} |->
                                      IF n = arg_name THEN sent_args[arg_name] ELSE kw[n]])
                 ELSE loop(i + 1, kw)
    IN loop(1, EmptyMap)

\* populate_args that also passes every caller-supplied key that is not
\* private, declared or not (a faulty variant)
populate_args_all_sent(arg_spec, sent_args, custom_args) ==
    LET RECURSIVE loop(_, _)
        loop(i, kw) ==
            IF i > Len(arg_spec) THEN kw
            ELSE LET arg_name == arg_spec[i] IN
                 IF arg_name \in DOMAIN custom_args
                 THEN loop(i + 1, [n \in DOMAIN kw \cup {arg_name} |->
                                      IF n = arg_name THEN custom_args[arg_name] ELSE kw[n]])
                 ELSE loop(i + 1, kw)
        public == {n \in DOMAIN sent_args : ~startswith(n, "_")}
    IN loop(1, [n \in public |-> sent_args[n]])

\* populate_args(method, sent_args, custom_args), given getargspec(method).args:
\* the loop over the declared names, index 1 being Python's index 0
populate_args(arg_spec, sent_args, custom_args) ==
    LET RECURSIVE loop(_, _)
        loop(i, kw) ==
            IF i > Len(arg_spec) THEN kw
            ELSE LET arg_name == arg_spec[i] IN
                 IF i = 1 /\ (arg_name = "self" \/ arg_name = "cls")
                 THEN loop(i + 1, kw)
                 ELSE IF arg_name \in DOMAIN custom_args
                 THEN loop(i + 1, [n \in DOMAIN kw \cup {arg_name} |->
                                      IF n = arg_name THEN custom_args[arg_name] ELSE kw[n]])
                 ELSE IF arg_name \in DOMAIN sent_args /\ ~startswith(arg_name, "_")
                 THEN loop(i + 1, [n \in DOMAIN kw \cup {arg_name} |->
                                      IF n = arg_name THEN sent_args[arg_name] ELSE kw[n]])
                 ELSE loop(i + 1, kw)
    IN loop(1, EmptyMap)

-----------------------------------------------------------------------------
(* The resource classes attached to the API in this model.  A class is its  *)
(* attributes; an attribute is a plain value, a property or a callable.     *)

\* a callable the decorators have not marked: no _is_exported attribute
Plain(args, ret) ==
    [kind |-> "method", is_exported |-> FALSE, permission |-> "", method_type |-> "",
     args |-> args, raises |-> FALSE, ret |-> ret]

\* a callable carrying the attributes _call reads from an exported method:
\* _is_exported, _permission and _method_type
Exported(method_type, permission, args, raises, ret) ==
    [kind |-> "method", is_exported |-> TRUE, permission |-> permission,
     method_type |-> method_type, args |-> args, raises |-> raises, ret |-> ret]

\* a property of the class: its getter and setter raise or not
Property(raises, initial) ==
    [kind |-> "property", is_exported |-> FALSE, permission |-> "", method_type |-> "",
     args |-> <<>>, raises |-> raises, ret |-> initial]

\* decorators._make_decorator(maybe_func_or_access, types, method_type), the
\* body of @create, @read, @update, @delete, @lookup and @execute: applied to a
\* function it runs _dec, which reads the global name permission (line 35),
\* and applied to anything else it reads its local access before any
\* assignment (line 24).  No decorator returns, so the classes of the model
\* carry the attributes of Exported without them.
_make_decorator(is_callable, types, method_type) ==
    IF is_callable THEN [err |-> "NameError"] ELSE [err |-> "UnboundLocalError"]

DocAttrs ==
    [_has_access       |-> Plain(<<"self", "_user_id", "permission">>, None),
     _has_class_access |-> Plain(<<"_user_id", "permission">>, None),
     _commit           |-> Plain(<<"self", "_user_id">>, StrV("committed")),
     _serialize        |-> Plain(<<"self", "_user_id", "permission">>,
                                DictV([id |-> IntV(7), tag |-> Instance("Tag")])),
     title   |-> Property(FALSE, StrV("t0")),
     broken  |-> Property(TRUE, None),
     get     |-> Exported("read", "read", <<"self">>, FALSE, IntV(1)),
     save    |-> Exported("update", "write", <<"self", "title", "_user_id">>, FALSE, IntV(2)),
     remove  |-> Exported("delete", "write", <<"self">>, FALSE, IntV(3)),
     boom    |-> Exported("update", "write", <<"self">>, TRUE, None),
     hidden  |-> Plain(<<"self">>, IntV(4)),
     make    |-> Exported("create", "write", <<"_user_id">>, FALSE, Instance("Doc")),
     fake    |-> Exported("create", "write", <<"_user_id">>, FALSE, IntV(0)),
     find    |-> Exported("lookup", "read", <<"_user_id">>, FALSE, IntV(5)),
     purge   |-> Exported("execute", "write", <<"_user_id">>, FALSE, IntV(6))]

\* a resource with no access predicate, no commit hook and no serializer
BareAttrs ==
    [get     |-> Exported("read", "read", <<"self">>, FALSE, IntV(1))]

\* a resource that other resources embed in what they serialize to
TagAttrs ==
    [_has_access |-> Plain(<<"self", "_user_id", "permission">>, None),
     _serialize  |-> Plain(<<"self", "permission">>, DictV([id |-> IntV(8)]))]

Classes == {"Doc", "Bare"}

ClassAttrs(cls) ==
    CASE cls = "Doc" -> DocAttrs
      [] cls = "Tag" -> TagAttrs
      [] OTHER -> BareAttrs

\* cls.__module__ of the classes of the model
ClassModule(cls) == "app"

\* getattr(obj, name, None), obj a class or an instance of it
getattr(cls, name) == Get(ClassAttrs(cls), name, None)

\* what the access predicates of the model answer: the permissions a user holds
Grants(user_id) ==
    CASE user_id = StrV("admin") -> {"read", "write"}
      [] user_id = StrV("guest") -> {"read"}
      [] OTHER -> {}

-----------------------------------------------------------------------------
(* Calls and what they do *)

\* the API's configuration (API.__init__ with its defaults)
commit_method_name == "_commit"
access_method_name == "_has_access"
class_access_method_name == "_has_class_access"
serialization_method_name == "_serialize"
permission_order == <<"write", "read">>
method_names == {commit_method_name, access_method_name, class_access_method_name,
                 serialization_method_name}

\* an event: a call the library made into the resource
Event(e, m, kw) == [e |-> e, m |-> m, kw |-> kw]

\* a call that returned value, having made the calls in events
Return(value, events) == [err |-> "", value |-> value, events |-> events]
\* a call that raised err, having made the calls in events
Raise(err, events) == [err |-> err, value |-> None, events |-> events]

\* r, or what K does with r's value when r returned: an exception propagates
Try(r, K(_)) == IF r.err # "" THEN r ELSE K(r)
\* r, made after the calls in events
After(events, r) == [r EXCEPT !.events = events \o @]

\* a local variable of a Python function that no statement has assigned yet
Unbound == [kind |-> "unbound"]

\* calling the callable m with **kw: a declared parameter left unbound is a
\* TypeError (the callables of the model declare no defaults)
Invoke(m, kw) ==
    LET declared == {m.args[i] : i \in {j \in 1..Len(m.args) :
                        ~(j = 1 /\ m.args[j] \in {"self", "cls"})}}
    IN IF declared # DOMAIN kw THEN "TypeError"
       ELSE IF m.raises THEN "Exception"
       ELSE ""

\* access_method(**access_kwargs) of the classes of the model
AccessAnswer(kw) ==
    "permission" \in DOMAIN kw /\ "_user_id" \in DOMAIN kw
        /\ kw["permission"].kind = "str" /\ kw["permission"].v \in Grants(kw["_user_id"])

\* populate_args called with two arguments, as lines 125 and 288 of resource.py
\* call it: it takes exactly three
populate_args2(arg_spec, sent_args) == Raise("TypeError", <<>>)

\* self.access_level_method_name: API.__init__ takes the argument (line 61)
\* and assigns every attribute but this one (lines 85-92)
access_level_method_name == Unbound

\* getattr(obj, name, None), obj any value: only classes and their instances
\* have the attributes of the model
getattr_of(obj, name) ==
    IF obj.kind \in {"instance", "class"} THEN getattr(obj.cls, name) ELSE None

\* the for loop of _access_level (lines 134-138) from the i-th permission of
\* permission_order on
RECURSIVE probe(_, _, _, _, _)
probe(access_method, environment, i, access_level, events) ==
    IF i > Len(permission_order) THEN Return(access_level, events)
    ELSE LET permission == permission_order[i]
             access_kwargs == populate_args(access_method.args,
                                            [permission |-> StrV(permission)], environment)
             asked == events \o <<Event("access", access_method_name, access_kwargs)>>
         IN IF Invoke(access_method, access_kwargs) # ""
            THEN Raise(Invoke(access_method, access_kwargs), events)
            \* line 137 assigns the permission to access_method, not to
            \* access_level, and leaves the loop
            ELSE IF AccessAnswer(access_kwargs) THEN Return(access_level, asked)
            ELSE probe(access_method, environment, i + 1, access_level, asked)

\* API._access_level(resource_instance, environment): line 123 reads
\* self.access_level_method_name
_access_level(resource_instance, environment) ==
    IF access_level_method_name = Unbound THEN Raise("AttributeError", <<>>)
    ELSE LET access_level_method == getattr_of(resource_instance, access_level_method_name) IN
         IF access_level_method # None
         THEN Try(populate_args2(access_level_method.args, environment),
                  LAMBDA access_level_kwargs :
                      Return(access_level_method.ret,
                             <<Event("access_level", access_level_method_name,
                                     access_level_kwargs.value)>>))
         ELSE LET access_method == getattr_of(resource_instance, access_method_name) IN
              IF access_method # None THEN probe(access_method, environment, 1, None, <<>>)
              ELSE Return(None, <<>>)

\* getattr(inner_obj, '_IS_RESOURCE', False): API.resource sets the attribute
\* on the classes it attaches (line 111)
_IS_RESOURCE(inner_obj) ==
    /\ inner_obj.kind \in {"instance", "class"}
    /\ \E n \in DOMAIN resource_classes : resource_classes[n].cls = inner_obj.cls

\* API.encode: _encode(inner_obj), with obj the outermost object
RECURSIVE _encode(_, _, _)
_encode(inner_obj, obj, environment) ==
    IF _IS_RESOURCE(inner_obj)
    THEN LET level == _access_level(obj, environment) IN
         IF level.err # "" THEN level
         ELSE LET serializer == getattr(inner_obj.cls, serialization_method_name) IN
              IF serializer # None
              THEN LET serializer_kwargs ==
                           populate_args(serializer.args, [permission |-> level.value], environment)
                   IN IF Invoke(serializer, serializer_kwargs) # ""
                      THEN Raise(Invoke(serializer, serializer_kwargs), level.events)
                      ELSE Return(serializer.ret,
                                  level.events \o <<Event("serialize", inner_obj.cls, serializer_kwargs)>>)
              \* the message of the ValueError is built from obj.__name__,
              \* which a class has and an instance has not
              ELSE IF obj.kind = "class" THEN Raise("ValueError", level.events)
              ELSE Raise("AttributeError", level.events)
    ELSE IF inner_obj.kind = "dict"
    THEN LET parts == [k \in DOMAIN inner_obj.v |-> _encode(inner_obj.v[k], obj, environment)] IN
         IF \E k \in DOMAIN parts : parts[k].err # ""
         \* iteritems yields the items in the order of the dict's hash table:
         \* one of the failing values is met first
         THEN Raise(parts[CHOOSE k \in DOMAIN parts : parts[k].err # ""].err, <<>>)
         ELSE Return(DictV([k \in DOMAIN parts |-> parts[k].value]), <<>>)
    ELSE IF inner_obj.kind = "list"
    THEN LET parts == [i \in 1..Len(inner_obj.v) |-> _encode(inner_obj.v[i], obj, environment)] IN
         IF \E i \in 1..Len(parts) : parts[i].err # ""
         THEN LET first == CHOOSE i \in 1..Len(parts) :
                               parts[i].err # "" /\ \A j \in 1..(i-1) : parts[j].err = ""
              IN Raise(parts[first].err, <<>>)
         ELSE Return(ListV([i \in 1..Len(parts) |-> parts[i].value]), <<>>)
    ELSE IF inner_obj.kind = "str"
    \* a str is an Iterable of str: the empty one encodes to [], any other
    \* recurses on its first character without end
    THEN IF inner_obj.v = "" THEN Return(ListV(<<>>), <<>>) ELSE Raise("RuntimeError", <<>>)
    ELSE Return(inner_obj, <<>>)

encode(obj, environment) == _encode(obj, obj, environment)

-----------------------------------------------------------------------------
(* API._call *)

\* a tuple of method types, as the allowed_method_types argument
Types(S) == [kind |-> "tuple", v |-> S]

\* a call item: a bare method name, or {'method': ..., 'args': ...}
Bare(method) == [bare |-> TRUE, method |-> method, args |-> EmptyMap]
Item(method, args) == [bare |-> FALSE, method |-> method, args |-> args]

\* the property values of a fresh instance of cls
InitialStore(cls) ==
    [n \in {m \in DOMAIN ClassAttrs(cls) : ClassAttrs(cls)[m].kind = "property"} |->
        ClassAttrs(cls)[n].ret]

\* the for loop of _call (lines 207-275) from the i-th item on, with the
\* results, the calls made and the instance's property values so far
RECURSIVE call_loop(_, _, _, _, _, _, _, _)
call_loop(class_obj, parent, methods, environment, i, result, events, store) ==
    IF i > Len(methods) THEN Return(ListV(result), events)
    ELSE
    LET method_data == methods[i]
        sent_arguments == IF method_data.bare THEN EmptyMap ELSE method_data.args
        method_name == lower(method_data.method)
        class_method == getattr(class_obj, method_name)
        failed(err, evs) == Raise(err, evs)
    IN
    IF method_name \in method_names THEN failed("ResourceMethodNotFoundError", events)
    ELSE IF class_method.kind = "property"
    THEN LET num_args == Cardinality(DOMAIN sent_arguments) IN
         IF num_args = 0
         THEN IF class_method.raises
              THEN failed("ResourceMethodFailedError",
                          events \o <<Event("get", method_name, EmptyMap)>>)
              ELSE call_loop(class_obj, parent, methods, environment, i + 1,
                             Append(result, IF parent.kind = "instance"
                                            THEN store[method_name] ELSE class_method),
                             events \o <<Event("get", method_name, EmptyMap)>>, store)
         ELSE IF method_name \in DOMAIN sent_arguments
         THEN LET value == sent_arguments[method_name] IN
              IF class_method.raises
              THEN failed("ResourceMethodFailedError",
                          events \o <<Event("set", method_name, sent_arguments)>>)
              ELSE call_loop(class_obj, parent, methods, environment, i + 1,
                             Append(result, value),
                             events \o <<Event("set", method_name, sent_arguments)>>,
                             [store EXCEPT ![method_name] = value])
         \* arguments, none of them under the property's name: nothing is done
         ELSE call_loop(class_obj, parent, methods, environment, i + 1, result, events, store)
    ELSE IF class_method.kind = "method"
    THEN LET method == getattr(parent.cls, method_name) IN
         IF method = None \/ ~method.is_exported
         THEN failed("ResourceMethodNotFoundError", events)
         ELSE LET method_kwargs == populate_args(method.args, sent_arguments, environment)
                  raised == Invoke(method, method_kwargs)
              IN IF raised = "TypeError"
                 THEN failed("ResourceMethodFailedError", events)
                 ELSE IF raised # ""
                 THEN failed("ResourceMethodFailedError",
                             events \o <<Event("invoke", method_name, method_kwargs)>>)
                 ELSE call_loop(class_obj, parent, methods, environment, i + 1,
                                Append(result, method.ret),
                                events \o <<Event("invoke", method_name, method_kwargs)>>, store)
    ELSE failed("ResourceMethodNotFoundError", events)

\* _call(class_obj, parent, methods, access_method_name, environment,
\*       allowed_method_types, encode): parent is class_obj itself or an instance
_call(class_obj, parent, methods, access_name, environment, allowed_method_types, enc) ==
    LET access_method == getattr(parent.cls, access_name)
        \* method is a local of _call (assigned at line 249, inside the loop):
        \* it has no value when lines 196 and 200 read it
        method == Unbound
    IN
    IF access_method = None THEN Raise("ResourceMethodNotFoundError", <<>>)
    ELSE IF allowed_method_types # None /\ method = Unbound
    THEN Raise("UnboundLocalError", <<>>)
    ELSE IF allowed_method_types # None /\ method.method_type \notin allowed_method_types.v
    THEN Raise("ResourceNotAllowedError", <<>>)
    ELSE IF method = Unbound
    THEN Raise("UnboundLocalError", <<>>)
    ELSE
    LET permission == method.permission
        access_kwargs == populate_args(access_method.args,
                                       [permission |-> StrV(permission)], environment)
        asked == <<Event("access", access_name, access_kwargs)>>
    IN
    IF Invoke(access_method, access_kwargs) # ""
    THEN Raise(Invoke(access_method, access_kwargs), <<>>)
    ELSE IF ~AccessAnswer(access_kwargs)
    THEN Raise("ResourceAccessDeniedError", asked)
    ELSE
    Try(call_loop(class_obj, parent, methods, environment, 1, <<>>, asked,
                  InitialStore(class_obj)),
        LAMBDA result :
            IF enc THEN After(result.events, encode(result.value, environment))
            ELSE result)

-----------------------------------------------------------------------------
(* The registry and the committer *)

ClassObj(cls) == [kind |-> "class", cls |-> cls]

\* _get_resource(name)
_get_resource(name) ==
    LET resource_class == Get(resource_classes, name, None) IN
    IF resource_class = None THEN Raise("ResourceNotFoundError", <<>>)
    ELSE Return(resource_class, <<>>)

\* _commit without the test of the transactional flag (a faulty variant)
_commit_any(name, instance, environment, enc) ==
    LET commit_result == None
        commit_method == getattr(instance.cls, commit_method_name)
    IN
    IF commit_method # None
    THEN Try(populate_args2(commit_method.args, environment),
             LAMBDA commit_kwargs : Raise("TypeError", <<>>))
    ELSE Return(commit_result, <<>>)

\* _commit(name, instance, environment, encode)
_commit(name, instance, environment, enc) ==
    LET commit_result == None
        commit_method == getattr(instance.cls, commit_method_name)
    IN
    IF Get(is_transactional, name, TRUE)
    THEN IF commit_method # None
         THEN Try(populate_args2(commit_method.args, environment),
                  LAMBDA commit_kwargs :
                      \* line 289 calls commit_result, which is None, not commit_method
                      IF commit_result = None THEN Raise("TypeError", <<>>)
                      ELSE IF enc THEN encode(commit_result, environment)
                      ELSE Return(commit_result, <<>>))
         ELSE Return(commit_result, <<>>)
    ELSE Return(commit_result, <<>>)

-----------------------------------------------------------------------------
(* The public interface *)

\* _class_call(name, methods, environment, allowed_method_types, encode)
_class_call(name, methods, environment, allowed_method_types, enc) ==
    Try(_get_resource(name),
        LAMBDA resource_class :
            _call(resource_class.value.cls, resource_class.value, methods,
                  class_access_method_name, environment, allowed_method_types, enc))

lookup(name, methods, environment, allowed_method_types, enc) ==
    _class_call(name, methods, environment, allowed_method_types, enc)

execute(name, methods, environment, allowed_method_types, enc) ==
    _class_call(name, methods, environment, allowed_method_types, enc)

\* resource_class(**instance_args): the classes of the model take any arguments
construct(resource_class, instance_args) == Instance(resource_class.cls)

\* lines 341-361 of create, given what the creation call returned
create_rest(name, cls, created, methods, environment, allowed_method_types, enc) ==
    IF Len(created.value.v) = 0 THEN Raise("IndexError", created.events)
    \* line 342 builds its message from class_name and method_name, which are
    \* names of nothing
    ELSE IF created.value.v[1] # Instance(cls) THEN Raise("NameError", created.events)
    \* line 351 iterates allowed_method_types
    ELSE IF Len(methods) > 0 /\ allowed_method_types = None
    THEN Raise("TypeError", created.events)
    ELSE
    Try(IF Len(methods) > 0
        THEN After(created.events,
                   _call(cls, created.value.v[1], methods, access_method_name, environment,
                         Types(allowed_method_types.v \ {"create"}), enc))
        \* result is assigned only when methods were given (line 345)
        ELSE Return(Unbound, created.events),
        LAMBDA result :
            Try(After(result.events, _commit(name, created.value.v[1], environment, enc)),
                LAMBDA commit :
                    IF result.value = Unbound
                    THEN Raise("UnboundLocalError", commit.events)
                    ELSE Return(DictV([instance |-> created.value.v[1],
                                       result |-> result.value,
                                       commit |-> commit.value]), commit.events)))

create(name, create_method_name, creation_args, methods, environment, allowed_method_types, enc) ==
    Try(_get_resource(name),
        LAMBDA resource_class :
            Try(_call(resource_class.value.cls, resource_class.value,
                      <<Item(create_method_name, creation_args)>>,
                      class_access_method_name, environment, Types({"create"}), FALSE),
                LAMBDA created :
                    create_rest(name, resource_class.value.cls, created, methods,
                                environment, allowed_method_types, enc)))

\* read with the commit step of update put before the dispatch (a faulty
\* variant)
read_commits(name, methods, instance_args, environment, allowed_method_types, enc) ==
    Try(_get_resource(name),
        LAMBDA resource_class :
            Try(_commit(name, construct(resource_class.value, instance_args),
                        environment, enc),
                LAMBDA commit :
                    After(commit.events,
                          _call(resource_class.value.cls,
                                construct(resource_class.value, instance_args),
                                methods, access_method_name, environment,
                                allowed_method_types, enc))))

read(name, methods, instance_args, environment, allowed_method_types, enc) ==
    Try(_get_resource(name),
        LAMBDA resource_class :
            _call(resource_class.value.cls, construct(resource_class.value, instance_args),
                  methods, access_method_name, environment, allowed_method_types, enc))

update(name, methods, instance_args, environment, allowed_method_types, enc) ==
    Try(_get_resource(name),
        LAMBDA resource_class :
            Try(_call(resource_class.value.cls,
                      construct(resource_class.value, instance_args),
                      methods, access_method_name, environment, allowed_method_types, enc),
                LAMBDA result :
                    Try(After(result.events,
                              _commit(name, construct(resource_class.value, instance_args),
                                      environment, enc)),
                        LAMBDA commit :
                            Return(DictV([result |-> result.value,
                                          commit |-> commit.value]), commit.events))))

delete(name, method, instance_args, environment, allowed_method_types, enc) ==
    Try(update(name, <<method>>, instance_args, environment, allowed_method_types, enc),
        LAMBDA result :
            IF result.value.v["result"].kind # "list"
            THEN Raise("TypeError", result.events)
            ELSE IF Len(result.value.v["result"].v) = 0
            THEN Raise("IndexError", result.events)
            ELSE Return(DictV([result.value.v EXCEPT
                                  !["result"] = result.value.v["result"].v[1]]),
                        result.events))

-----------------------------------------------------------------------------
(* What the callers of the model pass *)

Names == {"app.Doc", "app.Bare", "app.Nope"}

Environments ==
    {EmptyMap, [_user_id |-> StrV("admin")], [_user_id |-> StrV("guest")]}

CallItems ==
    {Bare("get"), Bare("title"), Bare("boom"), Bare("hidden"), Bare("_Commit"),
     Bare("find"), Bare("purge"), Bare("remove"), Bare("make"), Bare("broken"),
     Item("title", [title |-> StrV("t2")]), Item("title", [other |-> StrV("t3")]),
     Item("save", [title |-> StrV("t2"), _user_id |-> StrV("admin")])}

RECURSIVE BatchesOf(_)
BatchesOf(n) ==
    IF n = 0 THEN {<<>>}
    ELSE {Append(b, item) : b \in BatchesOf(n - 1), item \in CallItems}

Batches == UNION {BatchesOf(n) : n \in 0..MaxBatch}

\* the default allowed_method_types of each operation
DefaultTypes(op) ==
    CASE op = "lookup" -> Types({"lookup"})
      [] op = "execute" -> Types({"execute"})
      [] op = "create" -> Types({"read", "update", "create"})
      [] op = "read" -> Types({"read"})
      [] op = "update" -> Types({"read", "update", "delete"})
      [] op = "delete" -> Types({"delete"})

AllowedChoices(op) == {DefaultTypes(op), None}

CreateMethods == {"make", "fake"}

TheCall(op, name, methods, environment, allowed_method_types, enc) ==
    [op |-> op, name |-> name, methods |-> methods, environment |-> environment,
     allowed_method_types |-> allowed_method_types, encode |-> enc,
     create_method_name |-> ""]

NoCall == [op |-> "none"]
NoOutcome == [err |-> "none", value |-> None, events |-> <<>>]

-----------------------------------------------------------------------------
(* The state machine: resources are attached, then one call is made *)

Init ==
    /\ resource_classes = EmptyMap
    /\ is_transactional = EmptyMap
    /\ pc = "setup"
    /\ call = NoCall
    /\ outcome = NoOutcome
    /\ kwargs = EmptyMap

\* API.resource(cls, name, is_transactional), with module_root None
resource(cls, name, flag) ==
    LET given == IF name = "None" THEN ClassModule(cls) \o "." \o cls ELSE name IN
    /\ pc = "setup"
    /\ resource_classes' = [n \in DOMAIN resource_classes \cup {given} |->
                               IF n = given THEN ClassObj(cls) ELSE resource_classes[n]]
    /\ is_transactional' = [n \in DOMAIN is_transactional \cup {given} |->
                               IF n = given THEN flag ELSE is_transactional[n]]
    /\ UNCHANGED <<pc, call, outcome, kwargs>>

Attach == \E cls \in Classes, flag \in BOOLEAN : resource(cls, "None", flag)

Done(c, o) ==
    /\ call' = c
    /\ outcome' = o
    /\ pc' = "done"
    /\ UNCHANGED <<resource_classes, is_transactional, kwargs>>

CallLookup ==
    /\ pc = "setup"
    /\ \E name \in Names, methods \in Batches, environment \in Environments,
          allowed \in AllowedChoices("lookup"), enc \in BOOLEAN :
            Done(TheCall("lookup", name, methods, environment, allowed, enc),
                 lookup(name, methods, environment, allowed, enc))

CallExecute ==
    /\ pc = "setup"
    /\ \E name \in Names, methods \in Batches, environment \in Environments,
          allowed \in AllowedChoices("execute"), enc \in BOOLEAN :
            Done(TheCall("execute", name, methods, environment, allowed, enc),
                 execute(name, methods, environment, allowed, enc))

CallCreate ==
    /\ pc = "setup"
    /\ \E name \in Names, create_method_name \in CreateMethods, methods \in Batches,
          environment \in Environments, allowed \in AllowedChoices("create"),
          enc \in BOOLEAN :
            Done([TheCall("create", name, methods, environment, allowed, enc)
                     EXCEPT !.create_method_name = create_method_name],
                 create(name, create_method_name, EmptyMap, methods, environment,
                        allowed, enc))

CallRead ==
    /\ pc = "setup"
    /\ \E name \in Names, methods \in Batches, environment \in Environments,
          allowed \in AllowedChoices("read"), enc \in BOOLEAN :
            Done(TheCall("read", name, methods, environment, allowed, enc),
                 read(name, methods, EmptyMap, environment, allowed, enc))

CallUpdate ==
    /\ pc = "setup"
    /\ \E name \in Names, methods \in Batches, environment \in Environments,
          allowed \in AllowedChoices("update"), enc \in BOOLEAN :
            Done(TheCall("update", name, methods, environment, allowed, enc),
                 update(name, methods, EmptyMap, environment, allowed, enc))

CallDelete ==
    /\ pc = "setup"
    /\ \E name \in Names, method \in CallItems, environment \in Environments,
          allowed \in AllowedChoices("delete"), enc \in BOOLEAN :
            Done(TheCall("delete", name, <<method>>, environment, allowed, enc),
                 delete(name, method, EmptyMap, environment, allowed, enc))

Next ==
    \/ Attach
    \/ CallLookup
    \/ CallExecute
    \/ CallCreate
    \/ CallRead
    \/ CallUpdate
    \/ CallDelete

Spec == Init /\ [][Next]_vars

-----------------------------------------------------------------------------
(* The committer, called on an instance of a registered resource as         *)
(* update and create call it                                                *)

CallCommit ==
    /\ pc = "setup"
    /\ \E name \in DOMAIN resource_classes, environment \in Environments, enc \in BOOLEAN :
            Done(TheCall("_commit", name, <<>>, environment, None, enc),
                 _commit(name, construct(resource_classes[name], EmptyMap), environment, enc))

NextCommit ==
    \/ Next
    \/ CallCommit

SpecCommit == Init /\ [][NextCommit]_vars

-----------------------------------------------------------------------------
(* The access level resolver and the encoder, called on their own, with the *)
(* three resource classes of the application attached                       *)

EncodeClasses == Classes \cup {"Tag"}

\* environments that also carry a permission, which the binder prefers to
\* the permission the resolver probes with
EncodeEnvironments ==
    UNION {[keys -> {StrV("admin"), StrV("guest"), StrV("read")}] :
              keys \in SUBSET {"_user_id", "permission"}}

EncodeAtoms ==
    {None, IntV(7), StrV(""), StrV("a"),
     Instance("Doc"), Instance("Tag"), Instance("Bare")}

\* plain values, resources, and sequences and mappings of them
EncodeValues ==
    EncodeAtoms
    \cup {ListV(<<>>)}
    \cup {ListV(<<a>>) : a \in EncodeAtoms}
    \cup {ListV(<<a, b>>) : a, b \in EncodeAtoms}
    \cup {DictV([id |-> a, tag |-> b]) : a, b \in EncodeAtoms}
    \cup {ListV(<<DictV([tag |-> a])>>) : a \in EncodeAtoms}

InitEncode ==
    /\ resource_classes =
           [n \in {ClassModule(cls) \o "." \o cls : cls \in EncodeClasses} |->
               ClassObj(CHOOSE cls \in EncodeClasses : n = ClassModule(cls) \o "." \o cls)]
    /\ is_transactional =
           [n \in {ClassModule(cls) \o "." \o cls : cls \in EncodeClasses} |-> TRUE]
    /\ pc = "setup"
    /\ call = NoCall
    /\ outcome = NoOutcome
    /\ kwargs = EmptyMap

CallAccessLevel ==
    /\ pc = "setup"
    /\ \E name \in DOMAIN resource_classes, environment \in EncodeEnvironments :
            Done([op |-> "_access_level",
                  resource_instance |-> construct(resource_classes[name], EmptyMap),
                  environment |-> environment],
                 _access_level(construct(resource_classes[name], EmptyMap), environment))

CallEncode ==
    /\ pc = "setup"
    /\ \E obj \in EncodeValues, environment \in EncodeEnvironments :
            Done([op |-> "encode", obj |-> obj, environment |-> environment],
                 encode(obj, environment))

NextEncode ==
    \/ CallAccessLevel
    \/ CallEncode

SpecEncode == InitEncode /\ [][NextEncode]_vars

-----------------------------------------------------------------------------
(* The argument binder, called on its own *)

BindNames == {"self", "user_id", "_user_id", "extra"}

RECURSIVE ArgSpecsOf(_)
ArgSpecsOf(n) ==
    IF n = 0 THEN {<<>>}
    ELSE {Append(a, name) : a \in ArgSpecsOf(n - 1), name \in BindNames}

\* parameter lists: no name is declared twice
ArgSpecs ==
    {a \in UNION {ArgSpecsOf(n) : n \in 0..MaxArgs} :
        \A i, j \in 1..Len(a) : a[i] = a[j] => i = j}

MapsTo(values) == UNION {[keys -> values] : keys \in SUBSET BindNames}

CallerValues == {StrV("caller-1"), StrV("caller-2")}
SentMaps == MapsTo(CallerValues)
EnvMaps == MapsTo({StrV("env-1")})

InitBind ==
    /\ resource_classes = EmptyMap
    /\ is_transactional = EmptyMap
    /\ pc = "binder"
    /\ call = NoCall
    /\ outcome = NoOutcome
    /\ kwargs = EmptyMap

Bind ==
    /\ pc = "binder"
    /\ \E arg_spec \in ArgSpecs, sent_args \in SentMaps, custom_args \in EnvMaps :
        /\ call' = [op |-> "populate_args", arg_spec |-> arg_spec,
                    sent_args |-> sent_args, custom_args |-> custom_args]
        /\ kwargs' = populate_args(arg_spec, sent_args, custom_args)
    /\ pc' = "bound"
    /\ UNCHANGED <<resource_classes, is_transactional, outcome>>

NextBind == Bind

SpecBind == InitBind /\ [][NextBind]_vars

-----------------------------------------------------------------------------
(* What the properties below speak of *)

DispatchOps == {"lookup", "execute", "create", "read", "update", "delete"}
WriteOps == {"update", "delete", "create"}

\* a dispatch operation has been called, on a registered resource
Dispatched == pc = "done" /\ call.op \in DispatchOps
Registered == call.name \in DOMAIN resource_classes
CallClass == resource_classes[call.name].cls

\* the access predicate the operation consults first
AccessName ==
    IF call.op \in {"lookup", "execute", "create"}
    THEN class_access_method_name ELSE access_method_name
HasAccessPredicate == getattr(CallClass, AccessName) # None

\* the access predicate's answer for a permission, in the call's environment
Granted(permission) ==
    AccessAnswer(populate_args(getattr(CallClass, AccessName).args,
                               [permission |-> StrV(permission)], call.environment))

\* the member the i-th call item names
Member(i) == getattr(CallClass, lower(call.methods[i].method))

\* the calls into members of the resource: invocations, property reads and writes
MemberEvents ==
    {i \in 1..Len(outcome.events) : outcome.events[i].e \in {"invoke", "get", "set"}}
Touched(method_name) == \E i \in MemberEvents : outcome.events[i].m = method_name
CommitEvents == {i \in 1..Len(outcome.events) : outcome.events[i].e = "commit"}

\* every item of the batch names an exported method of an allowed type
WellFormedBatch ==
    /\ call.op # "create"
    /\ call.allowed_method_types # None
    /\ Len(call.methods) > 0
    /\ \A i \in 1..Len(call.methods) :
           /\ Member(i).kind = "method"
           /\ Member(i).is_exported
           /\ Member(i).method_type \in call.allowed_method_types.v

\* the keyword arguments the binder gives the method of the i-th call item
ItemKwargs(i) == populate_args(Member(i).args, call.methods[i].args, call.environment)
\* the method of the i-th call item takes these arguments and does not raise
Completes(i) == Invoke(Member(i), ItemKwargs(i)) = ""

\* a batch nothing stands against: exported methods of allowed types, whose
\* permissions the access predicate grants, and which complete when called
RunnableBatch ==
    /\ WellFormedBatch
    /\ \A i \in 1..Len(call.methods) : Granted(Member(i).permission) /\ Completes(i)

\* the members called, in the order of the calls
IsMemberEvent(e) == e.e \in {"invoke", "get", "set"}
Invoked == SelectSeq(outcome.events, IsMemberEvent)

\* the result sequence of a response: the response itself, or the result slot
\* of a write response
ResultSeq ==
    IF call.op \in WriteOps THEN outcome.value.v["result"] ELSE outcome.value

\* the evaluations of an access predicate
AccessEvents == {i \in 1..Len(outcome.events) : outcome.events[i].e = "access"}

\* the creation method a create names
CreateMember == getattr(CallClass, lower(call.create_method_name))
\* phase one of a create has nothing against it: the creation method is an
\* exported method of type create, which the class access predicate grants
\* and which completes when called with the (empty) creation arguments
CreationRuns ==
    /\ call.op = "create"
    /\ CreateMember.kind = "method" /\ CreateMember.is_exported
    /\ CreateMember.method_type = "create"
    /\ Granted(CreateMember.permission)
    /\ Invoke(CreateMember, populate_args(CreateMember.args, EmptyMap, call.environment)) = ""

\* the name under which a resource defines its best access level function
DEFAULT_ACCESS_LEVEL_METHOD_NAME == "_access_level"

\* the positions in permission_order of the permissions the access predicate
\* of cls grants when the resolver probes with them in this environment
GrantedProbes(cls, environment) ==
    {i \in 1..Len(permission_order) :
        AccessAnswer(populate_args(getattr(cls, access_method_name).args,
                                   [permission |-> StrV(permission_order[i])],
                                   environment))}

\* the least position of a non-empty set of positions
First(S) == CHOOSE i \in S : \A j \in S : i <= j

\* v holds an instance of an attached resource class at some depth
RECURSIVE HasResource(_)
HasResource(v) ==
    CASE _IS_RESOURCE(v) -> TRUE
      [] v.kind = "list" -> \E i \in 1..Len(v.v) : HasResource(v.v[i])
      [] v.kind = "dict" -> \E k \in DOMAIN v.v : HasResource(v.v[k])
      [] OTHER -> FALSE

\* v can be encoded as the encoder is described: every resource in it has a
\* serializer, whose return value can be encoded too, and it holds no string
\* (which the encoder, taking a str for a sequence, does not pass through)
RECURSIVE Serializable(_)
Serializable(v) ==
    CASE _IS_RESOURCE(v) ->
             /\ getattr(v.cls, serialization_method_name) # None
             /\ Serializable(getattr(v.cls, serialization_method_name).ret)
      [] v.kind = "list" -> \A i \in 1..Len(v.v) : Serializable(v.v[i])
      [] v.kind = "dict" -> \A k \in DOMAIN v.v : Serializable(v.v[k])
      [] v.kind = "str" -> FALSE
      [] OTHER -> TRUE

\* the caller of the call holds every permission
FullAccess == Grants(Get(call.environment, "_user_id", None)) = {"read", "write"}

\* the operations that have no commit step
ReadOnlyOps == {"read", "lookup", "execute"}

\* what the dispatcher alone does for the call made: the resource is looked
\* up and _call runs on the class (lookup, execute) or on a fresh instance
DispatchOnly ==
    IF ~Registered THEN Raise("ResourceNotFoundError", <<>>)
    ELSE _call(CallClass,
               IF call.op = "read" THEN Instance(CallClass) ELSE ClassObj(CallClass),
               call.methods, AccessName, call.environment,
               call.allowed_method_types, call.encode)

\* Every call of a dispatch operation ends in an exception, and none calls
\* into the resource: _call raises at line 193, 196 or 200, before its loop.
DispatchNeverReachesLoop ==
    Dispatched =>
        /\ outcome.err \in {"ResourceNotFoundError", "ResourceMethodNotFoundError",
                             "UnboundLocalError"}
        /\ outcome.events = <<>>

-----------------------------------------------------------------------------
(* The claims *)

\* C1: in any dispatch operation, if the access predicate returns false for
\* the permission a requested method requires, the dispatcher raises
\* AccessDenied and no method or property of the batch has been invoked, read
\* or written.  Stated for batches of exported methods of allowed types, where
\* no other error can come first.
C1_DeniedRaisesAccessDenied ==
    (/\ Dispatched /\ Registered /\ HasAccessPredicate /\ WellFormedBatch
     /\ \E i \in 1..Len(call.methods) : ~Granted(Member(i).permission))
    => (outcome.err = "ResourceAccessDeniedError" /\ MemberEvents = {})

\* C3: a member that is not marked exported is never invoked, read or
\* written, and requesting it ends the batch with MethodNotFound.  Stated for
\* a batch that requests such a member first.
C3_UnexportedIsMethodNotFound ==
    (/\ Dispatched /\ Registered /\ HasAccessPredicate
     /\ call.op # "create" /\ call.allowed_method_types = DefaultTypes(call.op)
     /\ Len(call.methods) > 0
     /\ Member(1).kind \in {"method", "property"} /\ ~Member(1).is_exported)
    => (/\ outcome.err = "ResourceMethodNotFoundError"
        /\ ~Touched(lower(call.methods[1].method)))

\* C4: execute, with its default allowed method types, on a method whose
\* method_type is read raises NotAllowed, whatever the access predicate
\* answers, and the method is not invoked.
C4_ExecuteOfReadIsNotAllowed ==
    (/\ Dispatched /\ Registered /\ HasAccessPredicate
     /\ call.op = "execute" /\ call.allowed_method_types = DefaultTypes("execute")
     /\ Len(call.methods) > 0
     /\ Member(1).kind = "method" /\ Member(1).is_exported
     /\ Member(1).method_type = "read")
    => (/\ outcome.err = "ResourceNotAllowedError"
        /\ ~Touched(lower(call.methods[1].method)))

\* C7: after a write batch (update, delete, create) on a transactional
\* resource with a commit hook, every method of which completed without
\* error, the commit hook has been invoked exactly once and the call returns
\* an envelope whose commit slot holds the hook's return value.
C7_CommitOnceAfterWriteBatch ==
    (/\ Dispatched /\ Registered /\ HasAccessPredicate
     /\ call.op \in WriteOps /\ call.allowed_method_types = DefaultTypes(call.op)
     /\ Get(is_transactional, call.name, FALSE)
     /\ getattr(CallClass, commit_method_name) # None
     /\ outcome.err # "ResourceMethodFailedError"
     /\ Cardinality(MemberEvents) =
            Len(call.methods) + (IF call.op = "create" THEN 1 ELSE 0))
    => (/\ Cardinality(CommitEvents) = 1
        /\ outcome.err = ""
        /\ outcome.value.kind = "dict"
        /\ "commit" \in DOMAIN outcome.value.v
        /\ outcome.value.v["commit"] # None)

\* C8: for a resource registered with is_transactional false, no operation
\* invokes the commit hook, the commit step returns None, and the commit slot
\* of every write response is None.
C8_NonTransactionalNeverCommits ==
    (pc = "done" /\ Registered /\ ~Get(is_transactional, call.name, TRUE))
    => (/\ CommitEvents = {}
        /\ call.op = "_commit" => outcome = Return(None, <<>>)
        /\ (call.op \in WriteOps /\ outcome.err = "") =>
               outcome.value.v["commit"] = None)

\* the commit step has run for a non-transactional resource that has a commit
\* hook, and returned None
C8_Witness ==
    /\ pc = "done" /\ call.op = "_commit" /\ Registered
    /\ ~Get(is_transactional, call.name, TRUE)
    /\ getattr(CallClass, commit_method_name) # None
    /\ outcome = Return(None, <<>>)

\* the binder has been called
Bound == pc = "bound"
\* the i-th declared name is the receiver, which is not passed
Receiver(i) == i = 1 /\ call.arg_spec[i] \in {"self", "cls"}
\* the declared parameters
Declared == {call.arg_spec[i] : i \in {j \in 1..Len(call.arg_spec) : ~Receiver(j)}}

\* C9: for every declared parameter name present in both the environment and
\* the caller-supplied arguments, the binder passes the environment's value,
\* never the caller's.
C9_EnvironmentWins ==
    Bound =>
        \A n \in Declared :
            (n \in DOMAIN call.custom_args /\ n \in DOMAIN call.sent_args)
            => (/\ n \in DOMAIN kwargs
                /\ kwargs[n] = call.custom_args[n]
                /\ kwargs[n] # call.sent_args[n])

\* user_id is declared and is in both maps, and the environment's value is bound
C9_Witness ==
    /\ Bound
    /\ "user_id" \in Declared
    /\ "user_id" \in DOMAIN call.custom_args /\ "user_id" \in DOMAIN call.sent_args
    /\ call.custom_args["user_id"] = StrV("env-1")
    /\ call.sent_args["user_id"] = StrV("caller-1")
    /\ kwargs["user_id"] = StrV("env-1")

\* the caller-supplied arguments under the names that are not private
Public(sent_args) ==
    [n \in {m \in DOMAIN sent_args : ~startswith(m, "_")} |-> sent_args[n]]

\* the caller-supplied arguments that differ from sent_args only under
\* private names
Variants(sent_args) ==
    {[n \in DOMAIN Public(sent_args) \cup DOMAIN private |->
         IF n \in DOMAIN private THEN private[n] ELSE sent_args[n]] :
        private \in UNION {[keys -> CallerValues] :
                              keys \in SUBSET {m \in BindNames : startswith(m, "_")}}}

\* C10: a declared parameter whose name begins with '_' is never bound from
\* the caller-supplied arguments: it is bound to the environment's value if
\* the environment has the name and is left out otherwise, so two calls that
\* differ only in the caller-supplied values of private parameters bind the
\* same keyword arguments.
C10_PrivateNeverFromCaller ==
    Bound =>
        /\ \A n \in Declared :
               startswith(n, "_") =>
                   IF n \in DOMAIN call.custom_args
                   THEN n \in DOMAIN kwargs /\ kwargs[n] = call.custom_args[n]
                   ELSE n \notin DOMAIN kwargs
        /\ \A other \in Variants(call.sent_args) :
               populate_args(call.arg_spec, other, call.custom_args) = kwargs

\* _user_id is declared, the caller supplies it, the environment does not,
\* and it is left out
C10_Witness ==
    /\ Bound
    /\ "_user_id" \in Declared
    /\ "_user_id" \in DOMAIN call.sent_args
    /\ "_user_id" \notin DOMAIN call.custom_args
    /\ "_user_id" \notin DOMAIN kwargs
    /\ \E n \in Declared : n \in DOMAIN kwargs

\* C11: the names of the keyword arguments the binder produces are all
\* declared parameter names of the callable, a leading self/cls receiver
\* excepted, whatever keys the caller-supplied arguments and the environment
\* contain.
C11_OnlyDeclaredNames ==
    Bound => DOMAIN kwargs \subseteq Declared

\* the callable declares (self, user_id); the caller and the environment both
\* carry self, extra and user_id; only user_id is bound
C11_Witness ==
    /\ Bound
    /\ call.arg_spec = <<"self", "user_id">>
    /\ {"self", "extra", "user_id"} \subseteq DOMAIN call.sent_args
    /\ {"self", "extra", "user_id"} \subseteq DOMAIN call.custom_args
    /\ DOMAIN kwargs = {"user_id"}

\* C12: a successful delete returns an envelope {result, commit} whose result
\* is the single value the requested method returned, not a one-element
\* sequence around it.  Stated for a delete of an exported method of an allowed
\* type that the access predicate grants and that completes.
C12_DeleteReturnsSingleValue ==
    (/\ Dispatched /\ Registered /\ HasAccessPredicate
     /\ call.op = "delete" /\ RunnableBatch)
    => (/\ outcome.err = ""
        /\ outcome.value.kind = "dict"
        /\ DOMAIN outcome.value.v = {"result", "commit"}
        /\ outcome.value.v["result"] = Member(1).ret)

\* C13: within one dispatch call the methods of the batch are invoked in
\* request order, one after another, and the i-th element of the returned
\* result sequence is the result of the i-th call item.  Stated for lookup,
\* execute, read and update on a batch nothing stands against.
C13_ResultsInRequestOrder ==
    (/\ Dispatched /\ Registered /\ HasAccessPredicate
     /\ call.op \in {"lookup", "execute", "read", "update"} /\ RunnableBatch)
    => (/\ outcome.err = ""
        /\ Len(Invoked) = Len(call.methods)
        /\ \A i \in 1..Len(call.methods) : Invoked[i].m = lower(call.methods[i].method)
        /\ ResultSeq.kind = "list"
        /\ Len(ResultSeq.v) = Len(call.methods)
        /\ \A i \in 1..Len(call.methods) : ResultSeq.v[i] = Member(i).ret)

\* C14: a call item naming one of the four reserved methods (the commit,
\* access, class-access and serialize method names), in whatever letter case,
\* is rejected with MethodNotFound and the reserved method is not invoked.
\* Stated for a batch whose first item names a reserved method.
C14_ReservedIsMethodNotFound ==
    (/\ Dispatched /\ Registered /\ HasAccessPredicate
     /\ call.op # "create" /\ call.allowed_method_types = DefaultTypes(call.op)
     /\ Len(call.methods) > 0
     /\ lower(call.methods[1].method) \in method_names)
    => (/\ outcome.err = "ResourceMethodNotFoundError"
        /\ ~Touched(lower(call.methods[1].method)))

\* C15: in create, if the value the creation method returns is not an
\* instance of the named resource, the call fails with MethodNotFound, no
\* follow-up method is invoked and the commit hook is not invoked.
C15_NonInstanceIsMethodNotFound ==
    (/\ Dispatched /\ Registered /\ HasAccessPredicate
     /\ CreationRuns /\ CreateMember.ret # Instance(CallClass))
    => (/\ outcome.err = "ResourceMethodNotFoundError"
        /\ Len(Invoked) <= 1
        /\ \A i \in 1..Len(Invoked) : Invoked[i].m = lower(call.create_method_name)
        /\ CommitEvents = {})

\* C16: in create, exactly one method of type create is invoked, the
\* creation method of phase one; a follow-up call item whose method is of type
\* create is rejected with NotAllowed and not invoked, whatever tuple of
\* allowed method types the caller passed.  Stated for a create whose phase
\* one has nothing against it and whose first follow-up item is of type create.
C16_FollowUpCreateIsNotAllowed ==
    (/\ Dispatched /\ Registered /\ HasAccessPredicate
     /\ CreationRuns /\ CreateMember.ret = Instance(CallClass)
     /\ call.allowed_method_types # None
     /\ Len(call.methods) > 0
     /\ Member(1).kind = "method" /\ Member(1).is_exported
     /\ Member(1).method_type = "create")
    => (/\ outcome.err = "ResourceNotAllowedError"
        /\ Len(Invoked) = 1
        /\ Invoked[1].m = lower(call.create_method_name))

\* C17: a create whose creation method succeeds and whose follow-up batch is
\* empty returns, after the commit step, a write response with an empty result
\* sequence and a commit slot; it does not fail.
C17_CreateWithoutFollowUp ==
    (/\ Dispatched /\ Registered /\ HasAccessPredicate
     /\ CreationRuns /\ CreateMember.ret = Instance(CallClass)
     /\ Len(call.methods) = 0)
    => (/\ outcome.err = ""
        /\ outcome.value.kind = "dict"
        /\ {"result", "commit"} \subseteq DOMAIN outcome.value.v
        /\ outcome.value.v["result"] = ListV(<<>>))

\* C18: for a resource that defines no best access level function, the
\* resolver probes the access predicate with the permissions of
\* permission_order (write, then read) in order, returns the first one the
\* predicate grants and stops there, and returns None only if the predicate
\* grants none of them.
C18_FirstGrantedPermission ==
    (/\ pc = "done" /\ call.op = "_access_level"
     /\ getattr(call.resource_instance.cls, DEFAULT_ACCESS_LEVEL_METHOD_NAME) = None
     /\ getattr(call.resource_instance.cls, access_method_name) # None)
    => LET granted == GrantedProbes(call.resource_instance.cls, call.environment) IN
       /\ outcome.err = ""
       /\ outcome.value = IF granted = {} THEN None
                           ELSE StrV(permission_order[First(granted)])
       /\ Cardinality(AccessEvents) = IF granted = {} THEN Len(permission_order)
                                        ELSE First(granted)

\* C19: the output of encode holds no un-serialized resource at any depth:
\* a resource, whether given directly, nested in a mapping or a sequence, or
\* embedded in what another resource's serializer returns, is replaced by its
\* serializer's encoded output.  Stated for values that hold a resource and in
\* which every resource has a serializer.
C19_NoResourceInOutput ==
    (/\ pc = "done" /\ call.op = "encode"
     /\ HasResource(call.obj) /\ Serializable(call.obj))
    => (outcome.err = "" /\ ~HasResource(outcome.value))

\* C20: within one dispatch call over a batch of any length, the access
\* predicate is evaluated exactly once, not once per method, and every method
\* of the batch is governed by that one outcome.  Stated for a batch nothing
\* stands against, which the one evaluation lets run to its end.
C20_AccessEvaluatedOnce ==
    (/\ Dispatched /\ Registered /\ HasAccessPredicate /\ RunnableBatch)
    => (/\ Cardinality(AccessEvents) = 1
        /\ Len(Invoked) = Len(call.methods))

\* C21: for a call item that names a property: with no caller arguments the
\* property is read, not written, and its current value is appended to the
\* results; with a caller argument under the property's own name the
\* property is set to that value and that value is appended; an exception of
\* the getter or the setter is reported as MethodFailed.  Stated for read and
\* update of a one-item batch, by a caller who holds every permission, with
\* the results left un-encoded.
C21_PropertyReadAndWrite ==
    (/\ Dispatched /\ Registered /\ HasAccessPredicate
     /\ call.op \in {"read", "update"}
     /\ call.allowed_method_types = DefaultTypes(call.op)
     /\ ~call.encode /\ FullAccess
     /\ Len(call.methods) = 1 /\ Member(1).kind = "property")
    => LET sent_arguments == call.methods[1].args
           method_name == lower(call.methods[1].method)
       IN IF DOMAIN sent_arguments # {} /\ method_name \notin DOMAIN sent_arguments
          THEN TRUE
          ELSE IF Member(1).raises
          THEN outcome.err = "ResourceMethodFailedError"
          ELSE IF DOMAIN sent_arguments = {}
          THEN /\ outcome.err = ""
               /\ ResultSeq = ListV(<<Member(1).ret>>)
               /\ Invoked = <<Event("get", method_name, EmptyMap)>>
          ELSE /\ outcome.err = ""
               /\ ResultSeq = ListV(<<sent_arguments[method_name]>>)
               /\ Invoked = <<Event("set", method_name, sent_arguments)>>

====
